---- MODULE Spec2Model ----
(***************************************************************************)
(* Segmentation and reassembly engine of 703deuce/stt (src/scripts).       *)
(*                                                                         *)
(* Part 1, the chunk planners: SmartAudioChunker, TranscriptAudioChunker   *)
(* (silence-aware) and SampleAccurateAudioChunker (fixed stride), followed *)
(* by AudioStitcher's trim-and-fade reassembly of the planned chunks.      *)
(*                                                                         *)
(* A sample of the source is modelled by its source index, so that a chunk *)
(* (a slice of the source buffer) is a sequence of source indices and the  *)
(* provenance of every output sample can be read off the output.           *)
(***************************************************************************)
EXTENDS Integers, Sequences, FiniteSets, TLC

\* ------------------------------------------------------------------ bounds
MaxTotalSamples == 4
MaxTargetDuration == 3
MaxOverlapDuration == 2
MaxDeviation == 1
MaxSampleRate == 1
MaxChannels == 1
MaxFiles == 2
MaxRows == 2
MaxTime == 2
MaxWords == 2
MaxSegments == 2
MaxSentences == 3
MaxDuration == 5

\* --------------------------------------------------------- program constants
\* smart_audio_chunker.py:231 and audio_chunker_sample_accurate.py:131
SmartChunkCap == 1000
\* transcript_chunker.py:453
TranscriptChunkCap == 100
\* audio_stitcher.py:99
fade_ms == 50
\* audio_chunker.py:240 (aformat ... sample_rates=44100:channel_layouts=stereo)
FfmpegSampleRate == 44100
FfmpegChannels == 2
SearchMargin == 100

VARIABLES
    chunker,                \* which planner class was constructed
    target_chunk_duration,  \* self.target_chunk_duration / self.chunk_duration (s)
    overlap_duration,       \* self.overlap_duration (s)
    max_deviation,          \* self.max_deviation (s)
    total_samples,          \* audio_data.shape[0]
    sample_rate,            \* sample rate read from the input file
    silence_boundaries,     \* result of find_silence_boundaries (sorted list)
    chunks,                 \* the plan built so far (list of chunk_info)
    chunk_index,            \* loop counter
    current_start,          \* current_start / start_sample of the loop
    pc,                     \* "constructed" | "loop" | "returned" | "raised" | "stitched"
    n_channels,             \* audio_data.shape[1]
    stitch_overlap,         \* AudioStitcher.overlap_duration
    stitcher,               \* which reassembly class was constructed
    chunk_files,            \* the chunk files handed to the stitcher
    output_file             \* what the stitcher wrote, or that it raised

\* SimplifiedTranscriptStitcher / SimplifiedSpeakerStitcher: the fields set by
\* load_chunks_data, the locals of stitch_chunks, what it returned, and what
\* a call of map_words_to_diarization_segments returned.
VARIABLES full_diarization_segments, stitcher_chunks, all_words, merged_text,
          stitch_result, mapped_segments

cfgVars == <<chunker, target_chunk_duration, overlap_duration, max_deviation>>

inputVars == <<total_samples, sample_rate, n_channels, silence_boundaries>>

loopVars == <<chunks, chunk_index, current_start>>

stitchVars == <<stitch_overlap, stitcher, chunk_files, output_file>>

planVars == <<cfgVars, inputVars, loopVars>>

\* TranscriptStitcher: self.overlap_duration, the texts of the chunk
\* transcripts passed to stitch_transcript_chunks, and what it wrote.
VARIABLES text_overlap_duration, chunk_transcripts, text_result

textVars == <<text_overlap_duration, chunk_transcripts, text_result>>

\* A call of find_speaker_at_time: its timestamp (doubled) and what it returned
VARIABLES query_timestamp, found_speaker

mapperVars == <<query_timestamp, found_speaker>>

\* A run of a chunking entry point: the duration ffprobe reported (in half
\* seconds), the temporary directory, what the entry point gave its caller,
\* and what main printed
VARIABLES duration, temp_dir, run_result, main_output

runVars == <<duration, temp_dir, run_result, main_output>>

wordVars == <<full_diarization_segments, stitcher_chunks, all_words,
              merged_text, stitch_result, mapped_segments>>

audioVars == <<planVars, stitchVars>>

restVars == <<wordVars, textVars, mapperVars, runVars>>

vars == <<pc, audioVars, restVars>>

Chunkers == {"smart", "transcript", "sample_accurate"}

\* ------------------------------------------------------------- list helpers
Min2(a, b) == IF a <= b THEN a ELSE b

Abs(x) == IF x < 0 THEN -x ELSE x

\* sorted(set(...)): ascending list of the members of a finite set of integers
RECURSIVE SortedList(_)
SortedList(S) ==
    IF S = {} THEN <<>>
    ELSE LET m == CHOOSE x \in S : \A y \in S : x <= y
         IN <<m>> \o SortedList(S \ {m})

\* Python slice seq[lo:hi] for 0 <= lo, hi (clamped to the length, empty when lo >= hi)
Slice(seq, lo, hi) ==
    LET h == Min2(hi, Len(seq))
    IN IF lo >= h THEN <<>> ELSE SubSeq(seq, lo + 1, h)

\* The source buffer: sample p is represented by its index p.
audio_data == [p \in 1..total_samples |-> p - 1]

\* ------------------------------------------------- SmartAudioChunker et al.
\* find_silence_boundaries: sample 0, the midpoint of every silence gap that
\* the external detector reports (midpoints, a set of positions inside the
\* file), and the final sample, deduplicated and sorted.
find_silence_boundaries(midpoints, total) ==
    SortedList({0} \cup midpoints \cup {total})

\* Mutation of MinByDistance: the first valid boundary, whatever its distance.
MinByDistanceFirstValid(valid_boundaries, target_sample) ==
    valid_boundaries[1]

\* min(valid_boundaries, key=lambda x: abs(x - target_sample)): the first
\* element of the list whose distance to the target is minimal.
MinByDistance(valid_boundaries, target_sample) ==
    LET key(i) == Abs(valid_boundaries[i] - target_sample)
        best == CHOOSE i \in 1..Len(valid_boundaries) :
                    /\ \A j \in 1..Len(valid_boundaries) : key(i) <= key(j)
                    /\ \A j \in 1..(i - 1) : key(j) > key(i)
    IN valid_boundaries[best]

find_optimal_split_point(target_sample, boundaries, rate, deviation) ==
    LET max_deviation_samples == deviation * rate
        valid_boundaries ==
            SelectSeq(boundaries,
                      LAMBDA b : Abs(b - target_sample) <= max_deviation_samples)
    IN IF valid_boundaries /= <<>>
       THEN MinByDistance(valid_boundaries, target_sample)
       ELSE target_sample

\* actual_end_sample of one iteration of the silence-aware loop
ActualEndSample(start, total, rate, target, deviation, boundaries) ==
    LET target_end_sample == start + target * rate
    IN IF target_end_sample >= total
       THEN total
       ELSE find_optimal_split_point(target_end_sample, boundaries, rate, deviation)

\* Mutation of ChunkEndSample: the overlap is added without the clamp.
ChunkEndSampleUnclamped(actual_end_sample, total, rate, overlap) ==
    IF actual_end_sample < total
    THEN actual_end_sample + overlap * rate
    ELSE actual_end_sample

\* chunk_end_sample: overlap is added for all chunks except the last
ChunkEndSample(actual_end_sample, total, rate, overlap) ==
    IF actual_end_sample < total
    THEN Min2(actual_end_sample + overlap * rate, total)
    ELSE actual_end_sample

\* Mutation of NextStart: the next chunk starts after the overlap.
NextStartAfterOverlap(actual_end_sample, chunk_end_sample) == chunk_end_sample

\* current_start = actual_end_sample (the next chunk starts without overlap)
NextStart(actual_end_sample, chunk_end_sample) == actual_end_sample

\* Mutation of ChunkCap: the check lets one more chunk through.
ChunkCapLoose(c) == SmartChunkCap + 1

\* the safety cap of each planner's loop
ChunkCap(c) == IF c = "transcript" THEN TranscriptChunkCap ELSE SmartChunkCap

\* Mutation of ChunkData: the slice starts one sample late.
ChunkDataLateStart(entry) ==
    Slice(audio_data, entry.start_sample + 1, entry.end_sample)

\* chunk_data = audio_data[start_sample:end_sample], the content of the chunk file
ChunkData(entry) == Slice(audio_data, entry.start_sample, entry.end_sample)

\* --------------------------------------------- SampleAccurateAudioChunker
\* end_sample of one iteration of split_audio_with_perfect_overlap
PerfectEndSample(start, total, chunk_samples, overlap_samples) ==
    IF start + chunk_samples < total
    THEN Min2(start + chunk_samples + overlap_samples, total)
    ELSE total

\* audio_a[-overlap_samples:]: the last n rows (the whole array when n = 0)
LastRows(data, n) ==
    IF n = 0 \/ n >= Len(data) THEN data
    ELSE SubSeq(data, Len(data) - n + 1, Len(data))

\* numpy broadcasting of two arrays that differ only in their row counts
Broadcastable(m, k) == m = k \/ m = 1 \/ k = 1

\* _verify_overlaps: np.allclose raises ValueError when the two overlap
\* regions cannot be broadcast together; a value mismatch is only logged.
VerifyOverlapsRaises(plan, overlap_samples) ==
    \E i \in 1..(Len(plan) - 1) :
        LET overlap_a == LastRows(ChunkData(plan[i]), overlap_samples)
            overlap_b == Slice(ChunkData(plan[i + 1]), 0, overlap_samples)
        IN ~Broadcastable(Len(overlap_a), Len(overlap_b))

\* chunk file written by sf.write(chunk_path, chunk_data, sample_rate): every
\* sample keeps its source index and is unattenuated (gain 1/1).
ChunkFile(entry) ==
    LET chunk_data == ChunkData(entry)
    IN [data |-> [i \in 1..Len(chunk_data) |->
                     [src |-> chunk_data[i], gain |-> <<1, 1>>]],
        sample_rate |-> sample_rate,
        channels |-> n_channels]

\* ------------------------------------------------------------ AudioStitcher
NoOutput == [status |-> "none"]

Raised == [status |-> "raised"]

\* fade_curve = np.linspace(0, 1, fade_samples); element j (from 0) as a
\* fraction <<numerator, denominator>>
FadeCurve(j, fade_samples) ==
    IF fade_samples = 1 \/ j = 0 THEN <<0, 1>>
    ELSE IF j = fade_samples - 1 THEN <<1, 1>>
    ELSE <<j, fade_samples - 1>>

\* Mutation of FadeSamples: the fade runs over the whole trimmed chunk.
FadeSamplesWholeChunk(sr, rows) == rows

\* fade_samples = min(int(fade_ms / 1000 * sr), trimmed_data.shape[0])
FadeSamples(sr, rows) == Min2((fade_ms * sr) \div 1000, rows)

\* trimmed_data[:fade_samples, channel] *= fade_curve
ApplyFadeIn(trimmed_data, fade_samples) ==
    [j \in 1..Len(trimmed_data) |->
        IF j <= fade_samples
        THEN [trimmed_data[j] EXCEPT !.gain = FadeCurve(j - 1, fade_samples)]
        ELSE trimmed_data[j]]

\* Mutation of TrimOverlap: the overlap region is kept.
TrimNothing(data, overlap_samples) == data

\* trimmed_data = data[overlap_samples:].copy()
TrimOverlap(data, overlap_samples) == Slice(data, overlap_samples, Len(data))

\* What chunk i > 0 appends to stitched_data: nothing when it is not longer
\* than the overlap, else its trimmed and faded rows.
Contribution(file, overlap) ==
    LET overlap_samples == overlap * file.sample_rate
    IN IF Len(file.data) > overlap_samples
       THEN LET trimmed_data == TrimOverlap(file.data, overlap_samples)
            IN <<[data |-> ApplyFadeIn(trimmed_data,
                                        FadeSamples(file.sample_rate, Len(trimmed_data))),
                  channels |-> file.channels]>>
       ELSE <<>>

\* stitched_data after the loop over chunk_files[1..n]
RECURSIVE StitchedData(_, _, _)
StitchedData(files, n, overlap) ==
    IF n = 0 THEN <<>>
    ELSE IF n = 1 THEN <<[data |-> files[1].data, channels |-> files[1].channels]>>
    ELSE StitchedData(files, n - 1, overlap) \o Contribution(files[n], overlap)

RECURSIVE ConcatRows(_)
ConcatRows(parts) ==
    IF parts = <<>> THEN <<>>
    ELSE Head(parts).data \o ConcatRows(Tail(parts))

\* A sample-rate mismatch is only logged (a warning); np.vstack raises when the
\* pieces disagree on their channel count; the output is written with the
\* sample rate of the first chunk.
stitch_ml_chunks_no_crossfade(files, overlap) ==
    LET stitched_data == StitchedData(files, Len(files), overlap)
    IN IF stitched_data = <<>> THEN Raised
       ELSE IF \E i \in 1..Len(stitched_data) :
                   stitched_data[i].channels /= stitched_data[1].channels
       THEN Raised
       ELSE [status |-> "written",
             data |-> ConcatRows(stitched_data),
             sample_rate |-> files[1].sample_rate,
             channels |-> stitched_data[1].channels]

\* Mutation of stitch_chunks_with_crossfade: a single chunk is not copied
\* but trimmed and faded like a later chunk.
StitchSingleTrimmed(files, overlap) ==
    IF Len(files) = 0 THEN Raised
    ELSE IF Len(files) = 1
    THEN LET part == Contribution(files[1], overlap)
         IN IF part = <<>> THEN Raised
            ELSE [status |-> "written",
                  data |-> part[1].data,
                  sample_rate |-> files[1].sample_rate,
                  channels |-> files[1].channels]
    ELSE stitch_ml_chunks_no_crossfade(files, overlap)

\* AudioStitcher.stitch_chunks_with_crossfade
stitch_chunks_with_crossfade(files, overlap) ==
    IF Len(files) = 0 THEN Raised
    ELSE IF Len(files) = 1
    THEN [status |-> "written",
          data |-> files[1].data,
          sample_rate |-> files[1].sample_rate,
          channels |-> files[1].channels]
    ELSE stitch_ml_chunks_no_crossfade(files, overlap)

\* ------------------------------------------------------------ construction
\* No input loaded yet, no plan started.
NoPlan ==
    /\ total_samples = 0
    /\ sample_rate = 1
    /\ n_channels = 1
    /\ silence_boundaries = <<>>
    /\ chunks = <<>>
    /\ chunk_index = 0
    /\ current_start = 0

\* No chunker in use (the other components run on their own).
NoChunker ==
    /\ chunker = "smart"
    /\ target_chunk_duration = 1
    /\ overlap_duration = 0
    /\ max_deviation = 0
    /\ NoPlan

\* No audio stitcher run yet.
NoStitch ==
    /\ stitch_overlap = 0
    /\ stitcher = "AudioStitcher"
    /\ chunk_files = <<>>
    /\ output_file = NoOutput

\* No transcript stitcher in use.
NoWords ==
    /\ full_diarization_segments = <<>>
    /\ stitcher_chunks = <<>>
    /\ all_words = <<>>
    /\ merged_text = <<>>
    /\ stitch_result = NoOutput
    /\ mapped_segments = <<>>

\* No text stitcher in use.
NoText ==
    /\ text_overlap_duration = 0
    /\ chunk_transcripts = <<>>
    /\ text_result = NoOutput

\* find_speaker_at_time not called.
NoMapper ==
    /\ query_timestamp = 0
    /\ found_speaker = "none"

\* No entry point run: no temporary directory made, nothing returned.
NoRun ==
    /\ duration = 0
    /\ temp_dir = "none"
    /\ run_result = NoOutput
    /\ main_output = NoOutput

NoRest == NoWords /\ NoText /\ NoMapper /\ NoRun

PlanInit ==
    /\ chunker \in Chunkers
    /\ target_chunk_duration \in
          (IF chunker = "sample_accurate" THEN 0..MaxTargetDuration
           ELSE 1..MaxTargetDuration)
    /\ overlap_duration \in 0..MaxOverlapDuration
    /\ max_deviation \in (IF chunker = "sample_accurate" THEN {0} ELSE 0..MaxDeviation)
    /\ NoPlan
    /\ pc = "constructed"
    /\ NoStitch
    /\ NoRest

\* sf.read of the input file, silence detection, loop variables initialised.
\* An empty file leaves the loop at once with an empty plan.
LoadAudioAt(at) ==
    /\ pc = at
    /\ \E total \in 0..MaxTotalSamples, rate \in 1..MaxSampleRate,
          channels \in 1..MaxChannels :
         \E midpoints \in SUBSET (1..(total - 1)) :
            /\ chunker = "sample_accurate" => midpoints = {}
            /\ total_samples' = total
            /\ sample_rate' = rate
            /\ n_channels' = channels
            /\ silence_boundaries' =
                  IF chunker = "sample_accurate" THEN <<>>
                  ELSE find_silence_boundaries(midpoints, total)
            /\ pc' = IF total > 0 THEN "loop" ELSE "returned"
    /\ chunks' = <<>>
    /\ chunk_index' = 0
    /\ current_start' = 0
    /\ UNCHANGED <<cfgVars, stitchVars, restVars>>

\* The planner called on a freshly constructed chunker
LoadAudio == LoadAudioAt("constructed")

\* One iteration of `while current_start < total_samples` of
\* split_audio_at_silence_boundaries / split_audio_for_transcription,
\* with the safety check and the loop test that follow it.
SilenceLoopIteration ==
    /\ pc = "loop"
    /\ chunker \in {"smart", "transcript"}
    /\ LET actual_end_sample ==
               ActualEndSample(current_start, total_samples, sample_rate,
                               target_chunk_duration, max_deviation,
                               silence_boundaries)
           chunk_end_sample ==
               ChunkEndSample(actual_end_sample, total_samples, sample_rate,
                              overlap_duration)
           chunk_info == [index |-> chunk_index,
                          start_sample |-> current_start,
                          end_sample |-> chunk_end_sample,
                          actual_split_sample |-> actual_end_sample]
           next_start == NextStart(actual_end_sample, chunk_end_sample)
       IN /\ chunks' = Append(chunks, chunk_info)
          /\ current_start' = next_start
          /\ chunk_index' = chunk_index + 1
          /\ pc' = IF chunk_index + 1 > ChunkCap(chunker) THEN "raised"
                   ELSE IF next_start < total_samples THEN "loop"
                   ELSE "returned"
    /\ UNCHANGED <<cfgVars, inputVars, stitchVars, restVars>>

\* One iteration of `while start_sample < total_samples` of
\* split_audio_with_perfect_overlap; when the loop ends, _verify_overlaps
\* runs over the finished plan (more than one chunk) and may raise.
PerfectLoopIteration ==
    /\ pc = "loop"
    /\ chunker = "sample_accurate"
    /\ LET chunk_samples == target_chunk_duration * sample_rate
           overlap_samples == overlap_duration * sample_rate
           end_sample == PerfectEndSample(current_start, total_samples,
                                          chunk_samples, overlap_samples)
           chunk_info == [index |-> chunk_index,
                          start_sample |-> current_start,
                          end_sample |-> end_sample]
           plan == Append(chunks, chunk_info)
           next_start == current_start + chunk_samples
       IN /\ chunks' = plan
          /\ current_start' = next_start
          /\ chunk_index' = chunk_index + 1
          /\ pc' = IF chunk_index + 1 > ChunkCap(chunker) THEN "raised"
                   ELSE IF next_start < total_samples THEN "loop"
                   ELSE IF Len(plan) > 1 /\ VerifyOverlapsRaises(plan, overlap_samples)
                        THEN "raised"
                   ELSE "returned"
    /\ UNCHANGED <<cfgVars, inputVars, stitchVars, restVars>>

\* The chunk files of a returned plan, unmodified and in index order, are
\* handed to AudioStitcher(overlap).stitch_chunks_with_crossfade.
StitchPlan ==
    /\ pc = "returned"
    /\ \E overlap \in 0..MaxOverlapDuration :
          LET files == [i \in 1..Len(chunks) |-> ChunkFile(chunks[i])]
          IN /\ stitch_overlap' = overlap
             /\ chunk_files' = files
             /\ output_file' = stitch_chunks_with_crossfade(files, overlap)
    /\ pc' = "stitched"
    /\ UNCHANGED <<planVars, stitcher, restVars>>

PlanNext ==
    \/ LoadAudio
    \/ SilenceLoopIteration
    \/ PerfectLoopIteration
    \/ StitchPlan

Init == PlanInit

Next == PlanNext

Spec == Init /\ [][Next]_vars

\* ------------------------------------------------ a ten-second recording
\* A 10 s file read at 44100 Hz in which the silence detector finds no gap,
\* planned with a 4 s target and 1 s of overlap.
Scenario ==
    [total_samples |-> 441000, sample_rate |-> 44100,
     target_chunk_duration |-> 4, overlap_duration |-> 1]

\* max_deviation of the silence-aware chunkers: 15 is the constructor's default
ScenarioDeviations == {0, 1, 2, 4, 15}

ScenarioInit ==
    /\ chunker \in Chunkers
    /\ target_chunk_duration = Scenario.target_chunk_duration
    /\ overlap_duration = Scenario.overlap_duration
    /\ max_deviation \in (IF chunker = "sample_accurate" THEN {0}
                          ELSE ScenarioDeviations)
    /\ NoPlan
    /\ pc = "constructed"
    /\ NoStitch
    /\ NoRest

\* sf.read of the recording; find_silence_boundaries without any silence gap
LoadScenarioAudio ==
    /\ pc = "constructed"
    /\ total_samples' = Scenario.total_samples
    /\ sample_rate' = Scenario.sample_rate
    /\ n_channels' = 1
    /\ silence_boundaries' =
          IF chunker = "sample_accurate" THEN <<>>
          ELSE find_silence_boundaries({}, Scenario.total_samples)
    /\ pc' = "loop"
    /\ chunks' = <<>>
    /\ chunk_index' = 0
    /\ current_start' = 0
    /\ UNCHANGED <<cfgVars, stitchVars, restVars>>

ScenarioNext ==
    \/ LoadScenarioAudio
    \/ SilenceLoopIteration
    \/ PerfectLoopIteration

SpecScenario == ScenarioInit /\ [][ScenarioNext]_vars

\* ------------------------------------------- reassembly of arbitrary files
\* Sample rates and channel counts of the chunk files given on the command line
FileSampleRates == {1, 2, 20}

FileChannels == {1, 2}

Stitchers == {"AudioStitcher", "AudioChunker"}

\* A chunk file of the given shape; sample r of file f is named <<f, r>>.
InputFile(f, rows, rate, channels) ==
    [data |-> [r \in 1..rows |-> [src |-> <<f, r>>, gain |-> <<1, 1>>]],
     sample_rate |-> rate,
     channels |-> channels]

\* All lists of n chunk files
RECURSIVE FileLists(_)
FileLists(n) ==
    IF n = 0 THEN {<<>>}
    ELSE {Append(fs, InputFile(n, rows, rate, channels)) :
             fs \in FileLists(n - 1), rows \in 0..MaxRows,
             rate \in FileSampleRates, channels \in FileChannels}

\* AudioChunker.stitch_chunks_with_crossfade: one file is copied; otherwise
\* _create_crossfade_filter indexes inputs[0] (IndexError for no files) and
\* ffmpeg is run on a filter graph that converts every input and the output
\* to 44100 Hz stereo; ffmpeg either writes that output or exits non-zero
\* (check=True raises).
ffmpeg_crossfade(files, ffmpeg_ok) ==
    IF Len(files) = 1
    THEN [status |-> "written",
          data |-> files[1].data,
          sample_rate |-> files[1].sample_rate,
          channels |-> files[1].channels]
    ELSE IF Len(files) = 0 \/ ~ffmpeg_ok THEN Raised
    ELSE [status |-> "written",
          sample_rate |-> FfmpegSampleRate,
          channels |-> FfmpegChannels]

StitchInit ==
    /\ stitcher \in Stitchers
    /\ stitch_overlap \in 0..MaxOverlapDuration
    /\ chunk_files = <<>>
    /\ output_file = NoOutput
    /\ pc = "stitcher"
    /\ NoChunker
    /\ NoRest

\* audio_stitcher.py main: the stitcher is run on the files of the command line
StitchFiles ==
    /\ pc = "stitcher"
    /\ stitcher = "AudioStitcher"
    /\ \E n \in 0..MaxFiles : \E files \in FileLists(n) :
          /\ chunk_files' = files
          /\ output_file' = stitch_chunks_with_crossfade(files, stitch_overlap)
    /\ pc' = "stitched_files"
    /\ UNCHANGED <<planVars, stitch_overlap, stitcher, restVars>>

\* AudioChunker.stitch_chunks_with_crossfade on the processed chunk files
CrossfadeFiles ==
    /\ pc = "stitcher"
    /\ stitcher = "AudioChunker"
    /\ \E n \in 0..MaxFiles : \E files \in FileLists(n) :
       \E ffmpeg_ok \in BOOLEAN :
          /\ chunk_files' = files
          /\ output_file' = ffmpeg_crossfade(files, ffmpeg_ok)
    /\ pc' = "stitched_files"
    /\ UNCHANGED <<planVars, stitch_overlap, stitcher, restVars>>

StitchNext ==
    \/ StitchFiles
    \/ CrossfadeFiles

SpecStitch == StitchInit /\ [][StitchNext]_vars

\* ------------------------------------ reassembly of chunks longer than 50 ms
\* Sample rates at which the 50 ms fade-in is one, two and three samples long
FadeSampleRates == {20, 40, 60}

\* Chunk files of one sample rate, mono: a first chunk of up to MaxRows
\* samples, then one or two chunks whose lengths lie around the overlap.
LongFileLists(rate, overlap) ==
    LET later == {rows \in (overlap * rate - 1)..(overlap * rate + MaxRows + 2) : rows >= 0}
    IN {<<InputFile(1, rows1, rate, 1), InputFile(2, rows2, rate, 1)>> :
           rows1 \in 0..MaxRows, rows2 \in later}
       \cup {<<InputFile(1, rows1, rate, 1), InputFile(2, rows2, rate, 1),
               InputFile(3, rows3, rate, 1)>> :
                 rows1 \in 0..MaxRows, rows2 \in later, rows3 \in later}

\* audio_stitcher.py main on such files
StitchLongFiles ==
    /\ pc = "stitcher"
    /\ stitcher = "AudioStitcher"
    /\ \E rate \in FadeSampleRates : \E files \in LongFileLists(rate, stitch_overlap) :
          /\ chunk_files' = files
          /\ output_file' = stitch_chunks_with_crossfade(files, stitch_overlap)
    /\ pc' = "stitched_long_files"
    /\ UNCHANGED <<planVars, stitch_overlap, stitcher, restVars>>

FadeInit ==
    /\ StitchInit
    /\ stitcher = "AudioStitcher"

FadeNext == StitchLongFiles

SpecFade == FadeInit /\ [][FadeNext]_vars

\* ------------------------------------------------ the chunking entry points
\* AudioChunker (audio_chunker.py) plans by time.  Times are in half
\* seconds: ffprobe reports a float, the two durations are whole seconds.

\* end_time = min(start_time + self.chunk_duration, duration)
EndTime(start_time, total, chunk_duration) ==
    Min2(start_time + 2 * chunk_duration, total)

\* Mutation of NextStartTime: no guard against standing still.
NextStartTimeUnguarded(start_time, end_time, overlap) == end_time - 2 * overlap

\* start_time = end_time - self.overlap_duration, or end_time when that
\* would not pass the chunk's own start
NextStartTime(start_time, end_time, overlap) ==
    IF end_time - 2 * overlap <= start_time THEN end_time
    ELSE end_time - 2 * overlap

AllChunkers == Chunkers \cup {"time_based"}

RunInit ==
    /\ chunker \in AllChunkers
    /\ target_chunk_duration \in
          (IF chunker = "sample_accurate" THEN 0..MaxTargetDuration
           ELSE 1..MaxTargetDuration)
    /\ overlap_duration \in 0..MaxOverlapDuration
    /\ max_deviation \in (IF chunker \in {"smart", "transcript"}
                           THEN 0..MaxDeviation ELSE {0})
    /\ NoPlan
    /\ pc = "constructed"
    /\ NoStitch
    /\ NoRest

\* tempfile.mkdtemp: AudioChunker.__enter__, or the first lines of the
\* process_* wrappers
MakeTempDir ==
    /\ pc = "constructed"
    /\ temp_dir' = "exists"
    /\ pc' = "temp_dir_created"
    /\ UNCHANGED <<audioVars, wordVars, textVars, mapperVars, duration,
                   run_result, main_output>>

\* get_audio_info (sf.info) or get_audio_duration (ffprobe) raises on a
\* file it cannot read
ProbeFails ==
    /\ pc = "temp_dir_created"
    /\ pc' = "raised"
    /\ UNCHANGED <<audioVars, restVars>>

\* The planners that read the samples, called by their wrappers
ReadAudio ==
    /\ chunker \in Chunkers
    /\ LoadAudioAt("temp_dir_created")

\* split_audio_into_chunks: duration = self.get_audio_duration(input_file)
ProbeDuration ==
    /\ pc = "temp_dir_created"
    /\ chunker = "time_based"
    /\ \E total \in 0..MaxDuration :
          /\ duration' = total
          /\ pc' = IF 0 < total THEN "loop" ELSE "planned"
    /\ chunks' = <<>>
    /\ chunk_index' = 0
    /\ current_start' = 0
    /\ UNCHANGED <<cfgVars, inputVars, stitchVars, wordVars, textVars,
                   mapperVars, temp_dir, run_result, main_output>>

\* One iteration of `while start_time < duration` of split_audio_into_chunks
TimeLoopIteration ==
    /\ pc = "loop"
    /\ chunker = "time_based"
    /\ LET end_time == EndTime(current_start, duration, target_chunk_duration)
           chunk_info == [id |-> chunk_index,
                          start_time |-> current_start,
                          end_time |-> end_time]
           next_start == NextStartTime(current_start, end_time, overlap_duration)
       IN /\ chunks' = Append(chunks, chunk_info)
          /\ current_start' = next_start
          /\ chunk_index' = chunk_index + 1
          /\ pc' = IF next_start < duration THEN "loop" ELSE "planned"
    /\ UNCHANGED <<cfgVars, inputVars, stitchVars, restVars>>

\* The ffmpeg loop of split_audio_into_chunks: every chunk is cut, or
\* ffmpeg fails or times out on one of them and the exception is re-raised
ExtractChunks ==
    /\ pc = "planned"
    /\ \E ffmpeg_ok \in (IF chunks = <<>> THEN {TRUE} ELSE BOOLEAN) :
          pc' = IF ffmpeg_ok THEN "returned" ELSE "raised"
    /\ UNCHANGED <<audioVars, restVars>>

\* How the entry point ends.  AudioChunker.process_audio_chunks catches the
\* exception and returns a failure result, so __exit__ sees no exception
\* and leaves the directory; the process_* wrappers remove the directory
\* and raise a new Exception.
FinishRun ==
    /\ pc \in {"returned", "raised"}
    /\ run_result' =
          IF pc = "returned"
          THEN [outcome |-> "returned", success |-> TRUE, total_chunks |-> Len(chunks)]
          ELSE IF chunker = "time_based"
          THEN [outcome |-> "returned", success |-> FALSE]
          ELSE [outcome |-> "raised"]
    /\ temp_dir' = IF pc = "raised" /\ chunker /= "time_based" THEN "removed"
                   ELSE temp_dir
    /\ pc' = "run_ended"
    /\ UNCHANGED <<audioVars, wordVars, textVars, mapperVars, duration, main_output>>

\* main: the result is printed; a failure ends the process with status 1
\* (audio_chunker.py main with --json prints the failure and ends normally)
Main ==
    /\ pc = "run_ended"
    /\ \E json \in (IF chunker = "time_based" THEN BOOLEAN ELSE {TRUE}) :
          main_output' =
              IF run_result.outcome = "returned" /\ run_result.success
              THEN [success |-> TRUE, exit_status |-> 0]
              ELSE [success |-> FALSE,
                    exit_status |-> IF chunker = "time_based" /\ json THEN 0 ELSE 1]
    /\ pc' = "exited"
    /\ UNCHANGED <<audioVars, wordVars, textVars, mapperVars, duration,
                   temp_dir, run_result>>

RunNext ==
    \/ MakeTempDir
    \/ ProbeFails
    \/ ReadAudio
    \/ ProbeDuration
    \/ SilenceLoopIteration
    \/ PerfectLoopIteration
    \/ TimeLoopIteration
    \/ ExtractChunks
    \/ FinishRun
    \/ Main

SpecRun == RunInit /\ [][RunNext]_vars

\* ------------------------------------- transcript reassembly by diarization
\* (enhanced_transcript_stitcher.py and speaker_embedding_stitcher.py hold the
\* same methods under two class names.)  Times are whole ticks; where the
\* code passes a word's midpoint (start + end) / 2, the model passes
\* start + end and compares it with doubled segment times.

Speakers == {"SPEAKER_00", "SPEAKER_01"}

Unknown == "UNKNOWN"

\* The attributes __init__ assigns to the instance; no method assigns another.
InstanceAttributes == {"full_diarization_segments", "chunks"}

\* A word of a chunk's `words` list.  The transcriber reports the same text
\* for the same span of audio in whichever chunk holds it.
Word(s, e) ==
    [word |-> "w" \o ToString(s) \o ToString(e), start |-> s, end |-> e]

\* Spans of positive length within the recording
Spans == {span \in (0..MaxTime) \X (0..MaxTime) : span[1] < span[2]}

Words == {Word(span[1], span[2]) : span \in Spans}

DiarizationSegments ==
    {[speaker |-> sp, start_time |-> span[1], end_time |-> span[2]] :
        sp \in Speakers, span \in Spans}

RECURSIVE SeqsOfLen(_, _)
SeqsOfLen(S, n) ==
    IF n = 0 THEN {<<>>}
    ELSE {Append(q, x) : q \in SeqsOfLen(S, n - 1), x \in S}

SeqsUpTo(S, n) == UNION {SeqsOfLen(S, k) : k \in 0..n}

\* full_audio_diarization_segments of the chunks file: the diarizer lists its
\* segments in ascending order of start_time.
DiarizationLists ==
    {d \in SeqsUpTo(DiarizationSegments, MaxSegments) :
        \A i \in 1..(Len(d) - 1) : d[i].start_time <= d[i + 1].start_time}

\* 'chunks' of the chunks file: two adjacent chunks and their word lists.
ChunkLists ==
    {<<[chunk_index |-> 0, words |-> lists[1]],
       [chunk_index |-> 1, words |-> lists[2]]>> :
        lists \in {l \in SeqsUpTo(Words, MaxWords) \X SeqsUpTo(Words, MaxWords) :
                      Len(l[1]) + Len(l[2]) <= MaxWords}}

\* Mutation of find_speaker_at_time: the last containing segment wins.
FindSpeakerLastContaining(timestamp2, segments) ==
    LET containing == {i \in 1..Len(segments) :
                          /\ 2 * segments[i].start_time <= timestamp2
                          /\ timestamp2 <= 2 * segments[i].end_time}
        key(i) == Min2(Abs(timestamp2 - 2 * segments[i].start_time),
                       Abs(timestamp2 - 2 * segments[i].end_time))
        closest == CHOOSE i \in 1..Len(segments) :
                      \A j \in 1..Len(segments) :
                          key(i) < key(j) \/ (key(i) = key(j) /\ i <= j)
    IN IF containing /= {}
       THEN segments[CHOOSE i \in containing : \A j \in containing : i >= j].speaker
       ELSE IF segments /= <<>> THEN segments[closest].speaker
       ELSE Unknown

\* Mutation of find_speaker_at_time: among equidistant segments the last wins.
FindSpeakerLastClosest(timestamp2, segments) ==
    LET containing == {i \in 1..Len(segments) :
                          /\ 2 * segments[i].start_time <= timestamp2
                          /\ timestamp2 <= 2 * segments[i].end_time}
        key(i) == Min2(Abs(timestamp2 - 2 * segments[i].start_time),
                       Abs(timestamp2 - 2 * segments[i].end_time))
        closest == CHOOSE i \in 1..Len(segments) :
                      \A j \in 1..Len(segments) :
                          key(i) < key(j) \/ (key(i) = key(j) /\ i >= j)
    IN IF containing /= {}
       THEN segments[CHOOSE i \in containing : \A j \in containing : i <= j].speaker
       ELSE IF segments /= <<>> THEN segments[closest].speaker
       ELSE Unknown

\* find_speaker_at_time: the first segment that contains the timestamp, else
\* the first segment whose nearer edge is closest, else UNKNOWN.
find_speaker_at_time(timestamp2, segments) ==
    LET containing == {i \in 1..Len(segments) :
                          /\ 2 * segments[i].start_time <= timestamp2
                          /\ timestamp2 <= 2 * segments[i].end_time}
        key(i) == Min2(Abs(timestamp2 - 2 * segments[i].start_time),
                       Abs(timestamp2 - 2 * segments[i].end_time))
        closest == CHOOSE i \in 1..Len(segments) :
                      \A j \in 1..Len(segments) :
                          key(i) < key(j) \/ (key(i) = key(j) /\ i <= j)
    IN IF containing /= {}
       THEN segments[CHOOSE i \in containing : \A j \in containing : i <= j].speaker
       ELSE IF segments /= <<>> THEN segments[closest].speaker
       ELSE Unknown

\* create_diarized_transcript_from_words: consecutive words of one speaker
\* form a segment; `text` is the words joined by single spaces, kept here as
\* the sequence of the joined words.
RECURSIVE create_diarized_transcript_from_words(_)
create_diarized_transcript_from_words(words) ==
    IF words = <<>> THEN <<>>
    ELSE LET n == Len(words)
             word == words[n]
             segments == create_diarized_transcript_from_words(SubSeq(words, 1, n - 1))
         IN IF segments = <<>> \/ segments[Len(segments)].speaker /= word.speaker
            THEN Append(segments, [speaker |-> word.speaker,
                                   start_time |-> word.start,
                                   end_time |-> word.end,
                                   text |-> <<word.word>>,
                                   words |-> <<word>>])
            ELSE [segments EXCEPT ![Len(segments)] =
                     [@ EXCEPT !.end_time = word.end,
                               !.text = Append(@, word.word),
                               !.words = Append(@, word)]]

\* map_chunk_to_full_diarization: every word gets the speaker found at its
\* midpoint; the chunk's own diarized_transcript is rebuilt from those words.
map_chunk_to_full_diarization(chunk, segments) ==
    LET mapped_words ==
            [k \in 1..Len(chunk.words) |->
                [word |-> chunk.words[k].word,
                 start |-> chunk.words[k].start,
                 end |-> chunk.words[k].end,
                 speaker |-> find_speaker_at_time(
                                 chunk.words[k].start + chunk.words[k].end,
                                 segments)]]
    IN [chunk_index |-> chunk.chunk_index,
        words |-> mapped_words,
        diarized_transcript |-> create_diarized_transcript_from_words(mapped_words)]

\* list.sort(key=lambda w: w.get('start', 0)): stable, ascending by start
RECURSIVE SortByStart(_)
SortByStart(words) ==
    IF words = <<>> THEN <<>>
    ELSE LET n == Len(words)
             rest == SortByStart(SubSeq(words, 1, n - 1))
             k == Cardinality({i \in 1..Len(rest) : rest[i].start <= words[n].start})
         IN SubSeq(rest, 1, k) \o <<words[n]>> \o SubSeq(rest, k + 1, Len(rest))

\* ' '.join of the words' texts, kept as the sequence of the joined words
JoinWords(words) == [k \in 1..Len(words) |-> words[k].word]

\* map_words_to_diarization_segments: each diarization segment takes every
\* word whose span overlaps it; segments left without a word are not emitted.
map_words_to_diarization_segments(words, diarization_segments) ==
    IF words = <<>> \/ diarization_segments = <<>> THEN <<>>
    ELSE LET sorted == SortByStart(words)
             segment_words(i) ==
                 SelectSeq(sorted,
                           LAMBDA w : /\ w.start < diarization_segments[i].end_time
                                      /\ w.end > diarization_segments[i].start_time)
             mapped_segment(i) ==
                 [speaker |-> diarization_segments[i].speaker,
                  start_time |-> diarization_segments[i].start_time,
                  end_time |-> diarization_segments[i].end_time,
                  text |-> JoinWords(segment_words(i)),
                  words |-> segment_words(i)]
             kept == SelectSeq([i \in 1..Len(diarization_segments) |-> i],
                               LAMBDA i : segment_words(i) /= <<>>)
         IN [k \in 1..Len(kept) |-> mapped_segment(kept[k])]

\* stitch_chunks, first part: the speaker-mapped words of all chunks, pooled
\* in chunk order and then sorted by start.
RECURSIVE PooledWords(_, _)
PooledWords(chunk_list, segments) ==
    IF chunk_list = <<>> THEN <<>>
    ELSE PooledWords(SubSeq(chunk_list, 1, Len(chunk_list) - 1), segments)
         \o map_chunk_to_full_diarization(chunk_list[Len(chunk_list)], segments).words

AllWords(chunk_list, segments) == SortByStart(PooledWords(chunk_list, segments))

MaxEnd(words) ==
    IF words = <<>> THEN 0
    ELSE CHOOSE m \in {words[k].end : k \in 1..Len(words)} :
            \A k \in 1..Len(words) : words[k].end <= m

\* stitch_chunks, second part: the read of self.full_audio_diarization_segments
\* raises AttributeError when the instance has no such attribute; otherwise
\* the final transcript is built and the result document returned.
stitch_chunks(chunk_list, segments) ==
    LET words == AllWords(chunk_list, segments)
    IN IF "full_audio_diarization_segments" \notin InstanceAttributes
       THEN [status |-> "raised", error |-> "AttributeError"]
       ELSE LET final_diarized_transcript ==
                    IF segments /= <<>> /\ words /= <<>>
                    THEN map_words_to_diarization_segments(words, segments)
                    ELSE create_diarized_transcript_from_words(words)
            IN [status |-> "returned",
                merged_text |-> JoinWords(words),
                diarized_transcript |-> final_diarized_transcript,
                timestamps |-> words,
                speaker_count |->
                    Cardinality({final_diarized_transcript[k].speaker :
                                    k \in 1..Len(final_diarized_transcript)}),
                word_count |-> Len(words),
                duration |-> MaxEnd(words),
                diarized_segments |-> Len(final_diarized_transcript)]

WordsInit ==
    /\ pc = "stitcher_constructed"
    /\ NoChunker
    /\ NoStitch
    /\ NoRest

\* load_chunks_data (--chunks-file).  load_individual_chunks, the old
\* workflow, leaves the diarization list empty.
load_chunks_data ==
    /\ pc = "stitcher_constructed"
    /\ stitcher_chunks' \in ChunkLists
    /\ full_diarization_segments' \in DiarizationLists
    /\ pc' = "loaded"
    /\ UNCHANGED <<audioVars, textVars, mapperVars, runVars, all_words, merged_text, stitch_result,
                   mapped_segments>>

\* Mutation of StitchChunks: the speaker labels are written into the word
\* records of self.chunks.
StitchChunksLabellingInPlace ==
    /\ pc = "loaded"
    /\ all_words' = AllWords(stitcher_chunks, full_diarization_segments)
    /\ merged_text' = JoinWords(AllWords(stitcher_chunks, full_diarization_segments))
    /\ stitch_result' = stitch_chunks(stitcher_chunks, full_diarization_segments)
    /\ stitcher_chunks' =
          [c \in 1..Len(stitcher_chunks) |->
              [chunk_index |-> stitcher_chunks[c].chunk_index,
               words |-> map_chunk_to_full_diarization(
                             stitcher_chunks[c], full_diarization_segments).words]]
    /\ pc' = IF stitch_chunks(stitcher_chunks, full_diarization_segments).status = "raised"
             THEN "exit_1" ELSE "saved"
    /\ UNCHANGED <<audioVars, textVars, mapperVars, runVars, full_diarization_segments,
                   mapped_segments>>

\* main: result = stitcher.stitch_chunks(); the result is saved, or the
\* exception is logged and the process exits with status 1.
StitchChunks ==
    /\ pc = "loaded"
    /\ all_words' = AllWords(stitcher_chunks, full_diarization_segments)
    /\ merged_text' = JoinWords(AllWords(stitcher_chunks, full_diarization_segments))
    /\ stitch_result' = stitch_chunks(stitcher_chunks, full_diarization_segments)
    /\ pc' = IF stitch_chunks(stitcher_chunks, full_diarization_segments).status = "raised"
             THEN "exit_1" ELSE "saved"
    /\ UNCHANGED <<audioVars, textVars, mapperVars, runVars, full_diarization_segments,
                   stitcher_chunks, mapped_segments>>

\* A call of the method map_words_to_diarization_segments itself, with the
\* pooled, speaker-mapped words of the loaded chunks and the loaded
\* diarization list.
MapWordsToDiarizationSegments ==
    /\ pc = "loaded"
    /\ mapped_segments' =
          map_words_to_diarization_segments(
              AllWords(stitcher_chunks, full_diarization_segments),
              full_diarization_segments)
    /\ pc' = "words_mapped"
    /\ UNCHANGED <<audioVars, textVars, mapperVars, runVars, full_diarization_segments,
                   stitcher_chunks, all_words, merged_text, stitch_result>>

WordsNext ==
    \/ load_chunks_data
    \/ StitchChunks
    \/ MapWordsToDiarizationSegments

SpecWords == WordsInit /\ [][WordsNext]_vars

\* -------------------------------------------- the two-speaker, two-word file
\* A chunks file in ticks of 0.1 s: speaker A from 0 s to 5 s, speaker B from
\* 5 s to 10 s, and the words hi (4.5 s - 4.9 s) and bye (5.1 s - 5.5 s).
TwoSpeakerDiarization ==
    <<[speaker |-> "A", start_time |-> 0, end_time |-> 50],
      [speaker |-> "B", start_time |-> 50, end_time |-> 100]>>

Hi == [word |-> "hi", start |-> 45, end |-> 49]

Bye == [word |-> "bye", start |-> 51, end |-> 55]

\* The same two words as the transcriber may time them around the change of
\* speaker, each 0.4 s long
HiTimings == {[word |-> "hi", start |-> s, end |-> s + 4] : s \in 41..49}

ByeTimings == {[word |-> "bye", start |-> s, end |-> s + 4] : s \in 46..55}

\* The two words over two adjacent chunks, hi before bye within a chunk
TwoWordChunkLists ==
    {<<[chunk_index |-> 0,
        words |-> (IF at[1] = 0 THEN <<w[1]>> ELSE <<>>)
                  \o (IF at[2] = 0 THEN <<w[2]>> ELSE <<>>)],
       [chunk_index |-> 1,
        words |-> (IF at[1] = 1 THEN <<w[1]>> ELSE <<>>)
                  \o (IF at[2] = 1 THEN <<w[2]>> ELSE <<>>)]>> :
        w \in HiTimings \X ByeTimings, at \in {0, 1} \X {0, 1}}

\* load_chunks_data of such a file
LoadTwoWordChunks ==
    /\ pc = "stitcher_constructed"
    /\ stitcher_chunks' \in TwoWordChunkLists
    /\ full_diarization_segments' = TwoSpeakerDiarization
    /\ pc' = "loaded"
    /\ UNCHANGED <<audioVars, textVars, mapperVars, runVars, all_words, merged_text,
                   stitch_result, mapped_segments>>

TwoWordNext ==
    \/ LoadTwoWordChunks
    \/ StitchChunks
    \/ MapWordsToDiarizationSegments

SpecTwoWords == WordsInit /\ [][TwoWordNext]_vars

\* ----------------------------------------------- find_speaker_at_time alone
\* Timestamps in half ticks, from 0 to one tick past the longest recording
Timestamps == 0..(2 * MaxTime + 2)

\* load_chunks_data of a chunks file that holds a diarization list and no chunk
LoadDiarization ==
    /\ pc = "stitcher_constructed"
    /\ full_diarization_segments' \in DiarizationLists
    /\ stitcher_chunks' = <<>>
    /\ pc' = "diarization_loaded"
    /\ UNCHANGED <<audioVars, textVars, mapperVars, runVars, all_words, merged_text,
                   stitch_result, mapped_segments>>

\* stitcher.find_speaker_at_time(timestamp)
FindSpeakerAtTime ==
    /\ pc = "diarization_loaded"
    /\ \E timestamp2 \in Timestamps :
          /\ query_timestamp' = timestamp2
          /\ found_speaker' = find_speaker_at_time(timestamp2, full_diarization_segments)
    /\ pc' = "speaker_found"
    /\ UNCHANGED <<audioVars, textVars, wordVars, runVars>>

MapperNext ==
    \/ LoadDiarization
    \/ FindSpeakerAtTime

SpecMapper == WordsInit /\ [][MapperNext]_vars

\* --------------------------------------- transcript reassembly by text match
\* (transcript_stitcher.py)  A text is its sequence of characters.

IsSpace(c) == c \in {" "}

IsPunctuation(c) == c \in {".", "!", "?"}

RECURSIVE LStrip(_)
LStrip(text) ==
    IF text /= <<>> /\ IsSpace(Head(text)) THEN LStrip(Tail(text)) ELSE text

RECURSIVE RStrip(_)
RStrip(text) ==
    IF text /= <<>> /\ IsSpace(text[Len(text)])
    THEN RStrip(SubSeq(text, 1, Len(text) - 1))
    ELSE text

\* str.strip()
Strip(text) == RStrip(LStrip(text))

\* re.sub(r'\s+', ' ', text)
RECURSIVE CollapseWhitespace(_)
CollapseWhitespace(text) ==
    IF text = <<>> THEN <<>>
    ELSE IF IsSpace(Head(text)) THEN <<" ">> \o CollapseWhitespace(LStrip(text))
    ELSE <<Head(text)>> \o CollapseWhitespace(Tail(text))

\* re.sub(r'([.!?])\s*', r'\1 ', text)
RECURSIVE SpaceAfterPunctuation(_)
SpaceAfterPunctuation(text) ==
    IF text = <<>> THEN <<>>
    ELSE IF IsPunctuation(Head(text))
         THEN <<Head(text), " ">> \o SpaceAfterPunctuation(LStrip(Tail(text)))
    ELSE <<Head(text)>> \o SpaceAfterPunctuation(Tail(text))

clean_transcript_text(text) ==
    IF text = <<>> THEN <<>>
    ELSE Strip(SpaceAfterPunctuation(CollapseWhitespace(Strip(text))))

\* [s.strip() for s in re.split(r'[.!?]+', text) if s.strip()]
RECURSIVE SplitSentences(_, _)
SplitSentences(text, piece) ==
    LET done == IF Strip(piece) = <<>> THEN <<>> ELSE <<Strip(piece)>>
    IN IF text = <<>> THEN done
       ELSE IF IsPunctuation(Head(text)) THEN done \o SplitSentences(Tail(text), <<>>)
       ELSE SplitSentences(Tail(text), Append(piece, Head(text)))

\* ' '.join(sentences)
RECURSIVE JoinWithSpace(_)
JoinWithSpace(sentences) ==
    IF sentences = <<>> THEN <<>>
    ELSE IF Len(sentences) = 1 THEN sentences[1]
    ELSE sentences[1] \o <<" ">> \o JoinWithSpace(Tail(sentences))

\* str.find(sub): the 0-based index of the first occurrence, or -1
Find(text, sub) ==
    LET at == {i \in 0..(Len(text) - Len(sub)) : SubSeq(text, i + 1, i + Len(sub)) = sub}
    IN IF at = {} THEN -1 ELSE CHOOSE i \in at : \A j \in at : i <= j

\* text[:n] and text[n:]
SliceTo(text, n) == SubSeq(text, 1, Min2(n, Len(text)))

SliceFrom(text, n) == SubSeq(text, Min2(n, Len(text)) + 1, Len(text))

\* What detect_overlap_boundary returns: None or a position in chunk2_text
None == [is_none |-> TRUE]

Position(n) == [is_none |-> FALSE, position |-> n]

\* Mutation of detect_overlap_boundary: the estimate is not clamped to a
\* quarter of chunk2_text.
DetectOverlapUnclamped(chunk1_text, chunk2_text, overlap) ==
    LET chunk1_sentences == SplitSentences(chunk1_text, <<>>)
        n == Len(chunk1_sentences)
        search_sentences == IF n >= 3 THEN SubSeq(chunk1_sentences, n - 2, n)
                            ELSE SubSeq(chunk1_sentences, n - 1, n)
        search_text == Strip(JoinWithSpace(search_sentences))
        chunk2_start == SliceTo(chunk2_text, Len(search_text) + SearchMargin)
        found == {i \in 1..Len(search_sentences) :
                     Find(chunk2_start, search_sentences[i]) >= 0}
        sentence == search_sentences[CHOOSE i \in found : \A j \in found : i <= j]
        estimated_position == (overlap * 15) \div 2
    IN IF n < 2 THEN None
       ELSE IF found /= {} THEN Position(Find(chunk2_text, sentence) + Len(sentence))
       ELSE Position(estimated_position)

\* detect_overlap_boundary: the end, in chunk2_text, of the first of chunk 1's
\* last sentences that occurs in the head of chunk 2; failing that, the
\* estimate min(int(overlap_duration * 7.5), len(chunk2_text) // 4).
detect_overlap_boundary(chunk1_text, chunk2_text, overlap) ==
    LET chunk1_sentences == SplitSentences(chunk1_text, <<>>)
        n == Len(chunk1_sentences)
        search_sentences == IF n >= 3 THEN SubSeq(chunk1_sentences, n - 2, n)
                            ELSE SubSeq(chunk1_sentences, n - 1, n)
        search_text == Strip(JoinWithSpace(search_sentences))
        chunk2_start == SliceTo(chunk2_text, Len(search_text) + SearchMargin)
        found == {i \in 1..Len(search_sentences) :
                     Find(chunk2_start, search_sentences[i]) >= 0}
        sentence == search_sentences[CHOOSE i \in found : \A j \in found : i <= j]
        estimated_position == Min2((overlap * 15) \div 2, Len(chunk2_text) \div 4)
    IN IF n < 2 THEN None
       ELSE IF found /= {} THEN Position(Find(chunk2_text, sentence) + Len(sentence))
       ELSE Position(estimated_position)

\* The loop of stitch_transcript_chunks over chunks 1..i:
\* stitched_text and total_overlap_removed after chunk i.
RECURSIVE StitchLoop(_, _, _)
StitchLoop(texts, i, overlap) ==
    IF i = 1
    THEN [stitched_text |-> clean_transcript_text(texts[1]),
          total_overlap_removed |-> 0]
    ELSE LET before == StitchLoop(texts, i - 1, overlap)
             chunk_text == clean_transcript_text(texts[i])
             previous_text == clean_transcript_text(texts[i - 1])
             overlap_end == detect_overlap_boundary(previous_text, chunk_text, overlap)
             chunk_text_trimmed ==
                 IF overlap_end /= None
                 THEN Strip(SliceFrom(chunk_text, overlap_end.position))
                 ELSE chunk_text
             separator ==
                 IF IsPunctuation(before.stitched_text[Len(before.stitched_text)])
                 THEN <<" ">> ELSE <<".", " ">>
         IN [stitched_text |->
                 IF before.stitched_text /= <<>> /\ chunk_text_trimmed /= <<>>
                 THEN before.stitched_text \o separator \o chunk_text_trimmed
                 ELSE before.stitched_text,
             total_overlap_removed |->
                 IF overlap_end /= None
                 THEN before.total_overlap_removed + overlap_end.position
                 ELSE before.total_overlap_removed]

\* stitch_transcript_chunks on the texts extracted from the chunk transcripts
stitch_transcript_chunks(texts, overlap) ==
    IF Len(texts) = 0 THEN Raised
    ELSE IF Len(texts) = 1
    THEN [status |-> "written",
          text |-> clean_transcript_text(texts[1]),
          chunks_stitched |-> 1,
          method |-> "single_chunk"]
    ELSE LET loop == StitchLoop(texts, Len(texts), overlap)
         IN [status |-> "written",
             text |-> clean_transcript_text(loop.stitched_text),
             chunks_stitched |-> Len(texts),
             overlap_characters_removed |-> loop.total_overlap_removed,
             method |-> "overlap_aware_stitching"]

\* The sentences the chunk transcripts are made of
SentenceTexts == {<<"a">>, <<"a", "b">>, <<"b">>}

\* --overlap-duration: none, or the default of 30 seconds
TextOverlapDurations == {0, 30}

\* "s1. s2. s3." when terminated, "s1. s2. s3" when the last sentence is cut
RECURSIVE Render(_, _)
Render(sentences, terminated) ==
    IF sentences = <<>> THEN <<>>
    ELSE IF Len(sentences) = 1
    THEN sentences[1] \o (IF terminated THEN <<".">> ELSE <<>>)
    ELSE sentences[1] \o <<".", " ">> \o Render(Tail(sentences), terminated)

Texts ==
    {Render(sentences, terminated) :
        sentences \in SeqsUpTo(SentenceTexts, MaxSentences), terminated \in BOOLEAN}

\* No chunk, one chunk, or two adjacent chunks
TextLists == {<<>>} \cup {<<t>> : t \in Texts} \cup (Texts \X Texts)

TextInit ==
    /\ pc = "text_stitcher_constructed"
    /\ text_overlap_duration \in TextOverlapDurations
    /\ chunk_transcripts = <<>>
    /\ text_result = NoOutput
    /\ NoChunker
    /\ NoStitch
    /\ NoWords
    /\ NoMapper
    /\ NoRun

\* stitcher.stitch_transcript_chunks(chunk_transcripts, output_file)
StitchTranscriptChunks ==
    /\ pc = "text_stitcher_constructed"
    /\ \E texts \in TextLists :
          /\ chunk_transcripts' = texts
          /\ text_result' = stitch_transcript_chunks(texts, text_overlap_duration)
    /\ pc' = "text_stitched"
    /\ UNCHANGED <<audioVars, wordVars, mapperVars, runVars, text_overlap_duration>>

TextNext == StitchTranscriptChunks

SpecText == TextInit /\ [][TextNext]_vars

\* ------------------------------------------------------------------ claims
SilenceAware == chunker \in {"smart", "transcript"}

PlanReturned == pc \in {"returned", "stitched"}

overlap_samples == overlap_duration * sample_rate

\* The no-overlap end of entry i: the recorded actual_split_sample, or, for
\* the fixed-stride chunker (which records none), start_sample + chunk_samples.
SplitSample(i) ==
    IF chunker = "sample_accurate"
    THEN chunks[i].start_sample + target_chunk_duration * sample_rate
    ELSE chunks[i].actual_split_sample

\* C1: every plan returned by the silence-aware planners for a non-empty
\* input tiles it: entry 0 starts at 0, each entry's actual_split_sample is
\* the next entry's start_sample, the last one equals total_samples, and
\* every source position lies in exactly one span [start_sample, split).
C1_PlanTiles ==
    (PlanReturned /\ SilenceAware /\ total_samples > 0) =>
        /\ Len(chunks) >= 1
        /\ chunks[1].start_sample = 0
        /\ \A i \in 1..(Len(chunks) - 1) :
              chunks[i].actual_split_sample = chunks[i + 1].start_sample
        /\ chunks[Len(chunks)].actual_split_sample = total_samples
        /\ \A p \in 0..(total_samples - 1) :
              Cardinality({i \in 1..Len(chunks) :
                              /\ chunks[i].start_sample <= p
                              /\ p < chunks[i].actual_split_sample}) = 1

\* C1 witness: a returned silence-aware plan of three or more chunks, one of
\* whose splits was snapped to a candidate away from the arithmetic target.
C1_Witness ==
    /\ PlanReturned /\ SilenceAware
    /\ Len(chunks) >= 3
    /\ \E i \in 1..(Len(chunks) - 1) :
          chunks[i].actual_split_sample /=
              chunks[i].start_sample + target_chunk_duration * sample_rate

\* C2: in every iteration of the silence-aware planner loop the chosen split
\* sample is strictly greater than the chunk's start_sample.
C2_SplitExceedsStart ==
    SilenceAware =>
        \A i \in 1..Len(chunks) :
            chunks[i].actual_split_sample > chunks[i].start_sample

\* C3: in a returned plan the overlap region of adjacent entries is
\* index-identical: chunk i+1 starts at chunk i's split, ends no earlier than
\* chunk i, and the tail [split_i, end_i) of chunk i's data is the head of
\* chunk i+1's data, both being the source samples split_i .. end_i - 1.
C3_OverlapIdentical ==
    PlanReturned =>
        \A i \in 1..(Len(chunks) - 1) :
            LET a == ChunkData(chunks[i])
                b == ChunkData(chunks[i + 1])
                split == SplitSample(i)
                n == chunks[i].end_sample - split
            IN /\ chunks[i + 1].start_sample = split
               /\ chunks[i + 1].end_sample >= chunks[i].end_sample
               /\ n >= 0 /\ n <= Len(a) /\ n <= Len(b)
               /\ Slice(a, Len(a) - n, Len(a)) = Slice(b, 0, n)
               /\ Slice(b, 0, n) = [k \in 1..n |-> split + k - 1]

\* C3 witness: a returned plan with an adjacent pair sharing a non-empty overlap.
C3_Witness ==
    /\ PlanReturned
    /\ Len(chunks) >= 3
    /\ \E i \in 1..(Len(chunks) - 1) : chunks[i].end_sample - SplitSample(i) >= 1

\* C4: the chunks of a returned plan, passed unmodified and in order to the
\* trim-and-fade stitcher configured with the same overlap, give an output
\* of exactly total_samples samples whose position p holds source sample p.
C4_RoundTrip ==
    (pc = "stitched" /\ stitch_overlap = overlap_duration /\ total_samples > 0) =>
        /\ output_file.status = "written"
        /\ Len(output_file.data) = total_samples
        /\ \A p \in 0..(total_samples - 1) : output_file.data[p + 1].src = p

\* C4 witness: a stitched plan of three or more chunks with a positive
\* overlap whose final chunk is no longer than the overlap.
C4_Witness ==
    /\ pc = "stitched" /\ stitch_overlap = overlap_duration
    /\ overlap_duration >= 1
    /\ Len(chunks) >= 3
    /\ Len(chunk_files[Len(chunks)].data) <= overlap_samples
    /\ output_file.status = "written"

\* C10: in a returned plan every entry but the last ends at
\* min(split + overlap_samples, total_samples), the last ends at
\* total_samples, and every entry has start_sample < end_sample <= total_samples.
C10_EndSampleRule ==
    PlanReturned =>
        /\ \A i \in 1..(Len(chunks) - 1) :
              chunks[i].end_sample =
                  Min2(SplitSample(i) + overlap_samples, total_samples)
        /\ Len(chunks) >= 1 => chunks[Len(chunks)].end_sample = total_samples
        /\ \A i \in 1..Len(chunks) :
              /\ chunks[i].start_sample < chunks[i].end_sample
              /\ chunks[i].end_sample <= total_samples

\* C10 witness: a returned plan in which the clamp to total_samples cuts the
\* overlap of an entry that is not the last.
C10_Witness ==
    /\ PlanReturned
    /\ \E i \in 1..(Len(chunks) - 1) :
          /\ SplitSample(i) + overlap_samples > total_samples
          /\ chunks[i].end_sample = total_samples

FilesDisagree ==
    \E i, j \in 1..Len(chunk_files) :
        \/ chunk_files[i].sample_rate /= chunk_files[j].sample_rate
        \/ chunk_files[i].channels /= chunk_files[j].channels

\* C9: both reassembly strategies raise, and write no output, whenever the
\* input chunks disagree on sample_rate or on channel count.
C9_MismatchRaises ==
    (pc = "stitched_files" /\ FilesDisagree) => output_file.status = "raised"

\* The words the loaded chunks hold, and the words an output holds in its segments
InputWordCount ==
    Len(PooledWords(stitcher_chunks, full_diarization_segments))

RECURSIVE SegmentWordCount(_)
SegmentWordCount(segments) ==
    IF segments = <<>> THEN 0
    ELSE SegmentWordCount(SubSeq(segments, 1, Len(segments) - 1))
         + Len(segments[Len(segments)].words)

StitchEnded == pc \in {"saved", "exit_1"}

\* C5: reassembly by diarization conserves words: stitch_chunks returns a
\* document, and the segments of its diarized_transcript (as those returned
\* by map_words_to_diarization_segments) hold in total exactly as many words
\* as the chunks supplied.
C5_WordsConserved ==
    /\ StitchEnded =>
          /\ stitch_result.status = "returned"
          /\ SegmentWordCount(stitch_result.diarized_transcript) = InputWordCount
    /\ pc = "words_mapped" =>
          SegmentWordCount(mapped_segments) = InputWordCount

\* Every word of every segment carries the segment's speaker, which is the
\* speaker find_speaker_at_time gives for the word's midpoint.
SpeakerHomogeneous(segments) ==
    \A i \in 1..Len(segments) : \A k \in 1..Len(segments[i].words) :
        /\ segments[i].words[k].speaker = segments[i].speaker
        /\ segments[i].speaker =
              find_speaker_at_time(
                  segments[i].words[k].start + segments[i].words[k].end,
                  full_diarization_segments)

\* C6: the output segments of reassembly by diarization are
\* speaker-homogeneous: stitch_chunks returns a document, and in its segments
\* (as in those returned by map_words_to_diarization_segments) every word's
\* speaker label equals the segment's speaker and the midpoint assignment.
C6_SpeakerHomogeneous ==
    /\ StitchEnded =>
          /\ stitch_result.status = "returned"
          /\ SpeakerHomogeneous(stitch_result.diarized_transcript)
    /\ pc = "words_mapped" => SpeakerHomogeneous(mapped_segments)

\* How often a word (same text, same start and end) occurs in a word list
Occurrences(w, words) ==
    Cardinality({k \in 1..Len(words) :
                    /\ words[k].word = w.word
                    /\ words[k].start = w.start
                    /\ words[k].end = w.end})

\* C7: a word that two adjacent chunks both report (same text, same start
\* and end) occurs exactly once in the merged word sequence and in the
\* merged_text that stitch_chunks builds.
C7_NoDuplicatedWords ==
    StitchEnded =>
        \A w \in Words :
            (\E i \in 1..(Len(stitcher_chunks) - 1) :
                /\ Occurrences(w, stitcher_chunks[i].words) = 1
                /\ Occurrences(w, stitcher_chunks[i + 1].words) = 1)
            => /\ Occurrences(w, all_words) = 1
               /\ Cardinality({k \in 1..Len(merged_text) :
                                  merged_text[k] = w.word}) = 1

\* How often a sentence occurs in a list of sentences
SentenceCount(sentence, sentences) ==
    Cardinality({k \in 1..Len(sentences) : sentences[k] = sentence})

\* The last k sentences of the first list are the first k of the second
RestatesTail(first, second, k) ==
    /\ k >= 1 /\ k <= Len(first) /\ k <= Len(second)
    /\ SubSeq(first, Len(first) - k + 1, Len(first)) = SubSeq(second, 1, k)

\* C8: when the second of two chunk texts begins with a verbatim copy of the
\* final sentences of a multi-sentence first, each restated sentence occurs in the
\* stitched text as often as in the first text plus the rest of the second
\* (the restatement adds no occurrence); two identical multi-sentence
\* chunks give a text of one chunk's sentences.
C8_RestatedTailRemoved ==
    (pc = "text_stitched" /\ Len(chunk_transcripts) = 2) =>
        LET first == SplitSentences(chunk_transcripts[1], <<>>)
            second == SplitSentences(chunk_transcripts[2], <<>>)
            stitched == SplitSentences(text_result.text, <<>>)
        IN /\ (Len(first) >= 2 /\ \E k \in 1..MaxSentences : RestatesTail(first, second, k)) =>
                 \E k \in 1..MaxSentences :
                    /\ RestatesTail(first, second, k)
                    /\ \A j \in 1..k :
                          SentenceCount(second[j], stitched) =
                              SentenceCount(second[j], first)
                              + SentenceCount(second[j], SubSeq(second, k + 1, Len(second)))
           /\ (chunk_transcripts[1] = chunk_transcripts[2] /\ Len(first) >= 2) =>
                 Len(stitched) = Len(first)

\* The candidates of the loaded file that lie within max_deviation of a target
ValidCandidates(target_sample) ==
    {silence_boundaries[k] : k \in 1..Len(silence_boundaries)}
        \cap {c \in 0..total_samples :
                 Abs(c - target_sample) <= max_deviation * sample_rate}

\* The arithmetic target of plan entry i
TargetSample(i) == chunks[i].start_sample + target_chunk_duration * sample_rate

C12_RunawayGuard ==
    /\ PlanReturned => Len(chunks) <= SmartChunkCap
    /\ (chunker \in {"smart", "sample_accurate"} /\ Len(chunks) > SmartChunkCap)
           => pc = "raised"
    /\ chunk_index = Len(chunks)
    /\ chunk_index <= SmartChunkCap + 1
    /\ pc = "loop" => chunk_index <= SmartChunkCap

\* C12 witness: the fixed-stride chunker stopped by the cap after its 1001st chunk.
C12_Witness ==
    /\ chunker = "sample_accurate"
    /\ pc = "raised"
    /\ Len(chunks) = SmartChunkCap + 1

PlanningEnded == pc \in {"returned", "raised"}

\* C13: planning the ten-second recording (441000 samples at 44100 Hz,
\* target 4 s, overlap 1 s, no silence found) with the SmartAudioChunker or
\* the fixed-stride chunker ends with a plan of exactly three chunks:
\* [0, 220500) split at 176400, [176400, 396900) split at 352800, and the
\* final chunk [352800, 441000).
C13_ScenarioPlan ==
    (PlanningEnded /\ chunker \in {"smart", "sample_accurate"}) =>
        /\ pc = "returned"
        /\ Len(chunks) = 3
        /\ chunks[1].start_sample = 0 /\ chunks[1].end_sample = 220500
        /\ SplitSample(1) = 176400
        /\ chunks[2].start_sample = 176400 /\ chunks[2].end_sample = 396900
        /\ SplitSample(2) = 352800
        /\ chunks[3].start_sample = 352800 /\ chunks[3].end_sample = 441000

\* C14: either reassembly strategy, given exactly one chunk, writes that
\* chunk unchanged (same samples, same sample rate, same channel count),
\* whatever overlap_duration is configured and however short the chunk is.
C14_SingleChunkIdentity ==
    (pc = "stitched_files" /\ Len(chunk_files) = 1) =>
        /\ output_file.status = "written"
        /\ output_file.data = chunk_files[1].data
        /\ output_file.sample_rate = chunk_files[1].sample_rate
        /\ output_file.channels = chunk_files[1].channels

\* C14 witness: the trim-and-fade stitcher given one non-empty chunk that is
\* shorter than its configured overlap.
C14_Witness ==
    /\ pc = "stitched_files"
    /\ stitcher = "AudioStitcher"
    /\ Len(chunk_files) = 1
    /\ Len(chunk_files[1].data) >= 1
    /\ Len(chunk_files[1].data) < stitch_overlap * chunk_files[1].sample_rate
    /\ output_file.status = "written"

\* C15: when two or more chunks all share one sample rate and one channel
\* count, the output either strategy writes has that sample rate and that
\* channel count.
C15_FormatPreserved ==
    (/\ pc = "stitched_files"
     /\ Len(chunk_files) >= 2
     /\ ~FilesDisagree
     /\ output_file.status = "written") =>
        /\ output_file.sample_rate = chunk_files[1].sample_rate
        /\ output_file.channels = chunk_files[1].channels

\* Segment i of the loaded diarization contains the queried timestamp
Contains(i) ==
    /\ 2 * full_diarization_segments[i].start_time <= query_timestamp
    /\ query_timestamp <= 2 * full_diarization_segments[i].end_time

\* Distance (in half ticks) from the queried timestamp to segment i's nearer edge
EdgeDistance(i) ==
    Min2(Abs(query_timestamp - 2 * full_diarization_segments[i].start_time),
         Abs(query_timestamp - 2 * full_diarization_segments[i].end_time))

SegmentIndexes == 1..Len(full_diarization_segments)

\* C16: when some segment contains the timestamp, find_speaker_at_time
\* returns the speaker of the first such segment in list order.
C16_Containment ==
    (pc = "speaker_found" /\ \E i \in SegmentIndexes : Contains(i)) =>
        \E i \in SegmentIndexes :
            /\ Contains(i)
            /\ \A j \in 1..(i - 1) : ~Contains(j)
            /\ found_speaker = full_diarization_segments[i].speaker

\* C16 witness: two overlapping segments of different speakers both contain
\* the timestamp.
C16_Witness ==
    /\ pc = "speaker_found"
    /\ \E i, j \in SegmentIndexes :
          /\ Contains(i) /\ Contains(j)
          /\ full_diarization_segments[i].speaker /= full_diarization_segments[j].speaker

\* C17: when no segment contains the timestamp and the list is not empty,
\* find_speaker_at_time returns the speaker of the earliest segment among
\* those whose nearer edge is closest to the timestamp.
C17_NearestEdge ==
    (/\ pc = "speaker_found"
     /\ SegmentIndexes /= {}
     /\ \A i \in SegmentIndexes : ~Contains(i)) =>
        \E i \in SegmentIndexes :
            /\ \A j \in SegmentIndexes : EdgeDistance(i) <= EdgeDistance(j)
            /\ \A j \in 1..(i - 1) : EdgeDistance(j) > EdgeDistance(i)
            /\ found_speaker = full_diarization_segments[i].speaker

\* C17 witness: no segment contains the timestamp and two segments of
\* different speakers are equally near.
C17_Witness ==
    /\ pc = "speaker_found"
    /\ \A i \in SegmentIndexes : ~Contains(i)
    /\ \E i, j \in SegmentIndexes :
          /\ EdgeDistance(i) = EdgeDistance(j)
          /\ \A k \in SegmentIndexes : EdgeDistance(i) <= EdgeDistance(k)
          /\ full_diarization_segments[i].speaker /= full_diarization_segments[j].speaker

\* C18: UNKNOWN is the label exactly when there is no diarization: stitching
\* with an empty diarization list completes and labels every word UNKNOWN,
\* and with a non-empty list no word is labelled UNKNOWN.
C18_UnknownOnlyWithoutDiarization ==
    StitchEnded =>
        /\ full_diarization_segments = <<>> =>
              /\ stitch_result.status = "returned"
              /\ \A k \in 1..Len(all_words) : all_words[k].speaker = Unknown
        /\ full_diarization_segments /= <<>> =>
              \A k \in 1..Len(all_words) : all_words[k].speaker /= Unknown

\* The loaded chunks hold exactly hi (4.5 s - 4.9 s) and bye (5.1 s - 5.5 s)
HiAndByeLoaded ==
    /\ full_diarization_segments = TwoSpeakerDiarization
    /\ LET words == PooledWords(stitcher_chunks, full_diarization_segments)
           timed(w) == [word |-> w.word, start |-> w.start, end |-> w.end]
       IN /\ Len(words) = 2
          /\ timed(words[1]) = Hi
          /\ timed(words[2]) = Bye

\* C19: with diarization A 0-5 s, B 5-10 s and the words hi (4.5-4.9) and
\* bye (5.1-5.5), hi is assigned A and bye B by their midpoints, and the
\* final diarized transcript is exactly the two one-word segments A:[hi]
\* followed by B:[bye].
C19_TwoWordTranscript ==
    (StitchEnded /\ HiAndByeLoaded) =>
        /\ Len(all_words) = 2
        /\ all_words[1].word = "hi" /\ all_words[1].speaker = "A"
        /\ all_words[2].word = "bye" /\ all_words[2].speaker = "B"
        /\ stitch_result.status = "returned"
        /\ Len(stitch_result.diarized_transcript) = 2
        /\ stitch_result.diarized_transcript[1].speaker = "A"
        /\ stitch_result.diarized_transcript[1].text = <<"hi">>
        /\ stitch_result.diarized_transcript[2].speaker = "B"
        /\ stitch_result.diarized_transcript[2].text = <<"bye">>

\* The words of the segments, in segment order
RECURSIVE SegmentWords(_)
SegmentWords(segments) ==
    IF segments = <<>> THEN <<>>
    ELSE SegmentWords(SubSeq(segments, 1, Len(segments) - 1))
         \o segments[Len(segments)].words

\* The segments are the maximal runs of one speaker in the word sequence
\* sorted by start: they hold the sorted words in order, each run under its
\* speaker, start times do not decrease, and neighbours differ in speaker.
MaximalSpeakerRuns(segments, words) ==
    /\ SegmentWords(segments) = SortByStart(words)
    /\ \A i \in 1..Len(segments) :
          /\ segments[i].words /= <<>>
          /\ \A k \in 1..Len(segments[i].words) :
                segments[i].words[k].speaker = segments[i].speaker
    /\ \A i \in 1..(Len(segments) - 1) :
          /\ segments[i].start_time <= segments[i + 1].start_time
          /\ segments[i].speaker /= segments[i + 1].speaker

\* C20: the output segments of reassembly by diarization are the maximal
\* speaker runs of the start-sorted word sequence: stitch_chunks returns a
\* document whose segments (as those returned by
\* map_words_to_diarization_segments) have non-decreasing start_time, differ
\* in speaker from their neighbours, and begin exactly at each speaker change.
C20_MaximalSpeakerRuns ==
    /\ StitchEnded =>
          /\ stitch_result.status = "returned"
          /\ MaximalSpeakerRuns(stitch_result.diarized_transcript, all_words)
    /\ pc = "words_mapped" =>
          MaximalSpeakerRuns(mapped_segments,
                             PooledWords(stitcher_chunks, full_diarization_segments))

\* The last two or three sentences of a cleaned text that has at least two
TailSentences(text) ==
    LET sentences == SplitSentences(text, <<>>)
        n == Len(sentences)
    IN IF n >= 3 THEN SubSeq(sentences, n - 2, n) ELSE SubSeq(sentences, n - 1, n)

\* The tail sentences of the first text that occur verbatim in the leading
\* text of the second
TailMatches(first, second) ==
    LET tail == TailSentences(first)
        leading == SliceTo(second, Len(Strip(JoinWithSpace(tail))) + SearchMargin)
    IN {i \in 1..Len(tail) : Find(leading, tail[i]) >= 0}

\* The stitched text of two cleaned texts when the second is cut at `position`
JoinedAfterCut(first, second, position) ==
    LET rest == Strip(SliceFrom(second, position))
    IN clean_transcript_text(
           IF first = <<>> \/ rest = <<>> THEN first
           ELSE IF IsPunctuation(first[Len(first)]) THEN first \o <<" ">> \o rest
           ELSE first \o <<".", " ">> \o rest)

\* Two chunk transcripts were stitched; their cleaned texts
TwoTextsStitched == pc = "text_stitched" /\ Len(chunk_transcripts) = 2

FirstText == clean_transcript_text(chunk_transcripts[1])

SecondText == clean_transcript_text(chunk_transcripts[2])

\* C21: when one or more of the first chunk's last two or three sentences
\* occur verbatim in the leading text of the second chunk,
\* detect_overlap_boundary returns the end of the occurrence of the longest
\* of them, and the stitched text is the first text followed by the second
\* text after that position.
C21_LongestMatchDropped ==
    (/\ TwoTextsStitched
     /\ Len(SplitSentences(FirstText, <<>>)) >= 2
     /\ TailMatches(FirstText, SecondText) /= {}) =>
        LET tail == TailSentences(FirstText)
            matches == TailMatches(FirstText, SecondText)
        IN \E i \in matches :
              /\ \A j \in matches : Len(tail[j]) <= Len(tail[i])
              /\ detect_overlap_boundary(FirstText, SecondText, text_overlap_duration)
                    = Position(Find(SecondText, tail[i]) + Len(tail[i]))
              /\ text_result.text =
                    JoinedAfterCut(FirstText, SecondText,
                                   Find(SecondText, tail[i]) + Len(tail[i]))

\* min(int(overlap_duration * 7.5), len(text) // 4)
EstimatedPosition(text) ==
    Min2((text_overlap_duration * 15) \div 2, Len(text) \div 4)

\* No sentence of the first text's tail occurs in the leading text of the
\* second; a first text of fewer than two sentences has no tail to search.
NoTailMatch ==
    \/ Len(SplitSentences(FirstText, <<>>)) < 2
    \/ TailMatches(FirstText, SecondText) = {}

C24_PerfectOverlapVerified ==
    (chunker = "sample_accurate" /\ PlanningEnded /\ Len(chunks) <= SmartChunkCap) =>
        /\ pc = "returned"
        /\ \A i \in 1..(Len(chunks) - 1) :
              LET audio_a == ChunkData(chunks[i])
                  audio_b == ChunkData(chunks[i + 1])
              IN /\ overlap_samples <= Len(audio_a)
                 /\ overlap_samples <= Len(audio_b)
                 /\ Slice(audio_a, Len(audio_a) - overlap_samples, Len(audio_a))
                       = Slice(audio_b, 0, overlap_samples)

\* Samples chunk k of the stitched files has beyond the overlap
KeptRows(k) ==
    LET overlap_rows == stitch_overlap * chunk_files[k].sample_rate
    IN IF Len(chunk_files[k].data) > overlap_rows
       THEN Len(chunk_files[k].data) - overlap_rows ELSE 0

\* Where chunk k's contribution begins in the output (0-based)
RECURSIVE OutputOffset(_)
OutputOffset(k) ==
    IF k = 1 THEN 0
    ELSE IF k = 2 THEN Len(chunk_files[1].data)
    ELSE OutputOffset(k - 1) + KeptRows(k - 1)

\* C25: in the output of the trim-and-fade stitcher chunk 0 is whole and
\* unmodified, each later chunk contributes its samples from overlap_samples
\* onward in input order (nothing when it is no longer than the overlap),
\* and only the first min(int(0.05 * sample_rate), trimmed length) samples
\* of a contribution are altered, whatever overlap_duration is.
C25_OnlyFadeAltered ==
    pc = "stitched_long_files" =>
        LET n == Len(chunk_files)
            unaltered == <<1, 1>>
        IN /\ output_file.status = "written"
           /\ Len(output_file.data) = OutputOffset(n) + KeptRows(n)
           /\ SubSeq(output_file.data, 1, Len(chunk_files[1].data)) = chunk_files[1].data
           /\ \A k \in 2..n : \A j \in 1..KeptRows(k) :
                 LET sample == output_file.data[OutputOffset(k) + j]
                     source == chunk_files[k].data[
                                   stitch_overlap * chunk_files[k].sample_rate + j]
                     fade_rows == Min2(chunk_files[k].sample_rate \div 20, KeptRows(k))
                 IN /\ sample.src = source.src
                    /\ j > fade_rows => sample.gain = unaltered

\* C25 witness: a later chunk longer than a positive overlap whose
\* contribution has a faded sample of fractional gain and samples beyond
\* the fade.
C25_Witness ==
    /\ pc = "stitched_long_files"
    /\ stitch_overlap >= 1
    /\ output_file.status = "written"
    /\ \E k \in 2..Len(chunk_files) :
          /\ KeptRows(k) > chunk_files[k].sample_rate \div 20
          /\ output_file.data[OutputOffset(k) + 2].gain = <<1, 2>>

\* The word records of the loaded chunks carry no speaker label
InputWordsUnlabelled ==
    \A c \in 1..Len(stitcher_chunks) : \A k \in 1..Len(stitcher_chunks[c].words) :
        DOMAIN stitcher_chunks[c].words[k] = {"word", "start", "end"}

\* C26: once loaded, the diarization list and the chunks with their word
\* records are left as they are by every step of mapping and stitching; the
\* speaker labels are on the new word records only.
C26_InputsNotMutated ==
    [][pc /= "stitcher_constructed" =>
          /\ full_diarization_segments' = full_diarization_segments
          /\ stitcher_chunks' = stitcher_chunks
          /\ InputWordsUnlabelled'
          /\ \A k \in 1..Len(all_words') : "speaker" \in DOMAIN all_words'[k]]_vars

\* C26 witness: stitch_chunks has mapped words of two different speakers
\* and the loaded word records are still unlabelled.
C26_Witness ==
    /\ StitchEnded
    /\ InputWordsUnlabelled
    /\ \E j, k \in 1..Len(all_words) : all_words[j].speaker /= all_words[k].speaker

\* The time-based planner has read a positive duration
TimePlanStarted == chunker = "time_based" /\ duration > 0

\* C27: in the plan of AudioChunker.split_audio_into_chunks, for any positive
\* duration and chunk_duration and any overlap (also one not below
\* chunk_duration), every chunk starts strictly after its predecessor, the
\* loop variable has passed the last planned start, there are never more
\* chunks than half seconds of audio (the loop ends), the first chunk
\* starts at 0 and, once the loop has ended, the last chunk ends at duration.
C27_TimePlanAdvances ==
    TimePlanStarted =>
        /\ \A i \in 1..(Len(chunks) - 1) :
              chunks[i + 1].start_time > chunks[i].start_time
        /\ Len(chunks) >= 1 =>
              /\ chunks[1].start_time = 0
              /\ current_start > chunks[Len(chunks)].start_time
        /\ Len(chunks) <= duration
        /\ pc /= "loop" =>
              /\ Len(chunks) >= 1
              /\ chunks[Len(chunks)].end_time = duration

\* C27 witness: a finished plan of two or more chunks whose overlap is not
\* below the chunk duration.
C27_Witness ==
    /\ TimePlanStarted
    /\ pc = "planned"
    /\ overlap_duration >= target_chunk_duration
    /\ Len(chunks) >= 2

\* C23: an entry point whose planning or extraction failed gives its caller
\* a returned result with success = false, and no exception.
C23_FailureReturned ==
    [][(pc = "raised" /\ pc' = "run_ended") =>
          /\ run_result'.outcome = "returned"
          /\ run_result'.success = FALSE]_vars

\* The entry point has ended, with or without a failure
RunEnded == pc \in {"run_ended", "exited"}

RunFailed ==
    \/ run_result.outcome = "raised"
    \/ run_result.outcome = "returned" /\ ~run_result.success

\* C28: after a failed chunking run the temporary directory made for it no
\* longer exists; after a successful run it still exists.
C28_TempDirLifecycle ==
    RunEnded =>
        /\ RunFailed => temp_dir = "removed"
        /\ ~RunFailed => temp_dir = "exists"

\* Where the materialized span of plan entry i ends
SpanEnd(i) ==
    IF chunker = "time_based" THEN chunks[i].end_time ELSE chunks[i].end_sample

\* C29: in every plan a chunker returns, each chunk after the first extends
\* beyond the end of its predecessor's span.
C29_NoRedundantChunks ==
    pc = "returned" =>
        \A i \in 1..(Len(chunks) - 1) : SpanEnd(i + 1) > SpanEnd(i)

\* What stitch_transcript_chunks keeps of the second of two texts once the
\* detected overlap is cut from it
SecondTextTrimmed ==
    LET overlap_end ==
            detect_overlap_boundary(FirstText, SecondText, text_overlap_duration)
    IN IF overlap_end = None THEN SecondText
       ELSE Strip(SliceFrom(SecondText, overlap_end.position))

\* C30: when two chunk texts are stitched, the second text's kept part, if
\* it is not empty, closes the written text, after the first text when that
\* is not empty, whether or not the first text was empty.
C30_KeptTextPresent ==
    (TwoTextsStitched /\ SecondTextTrimmed /= <<>>) =>
        LET kept == SecondTextTrimmed
            written == text_result.text
        IN /\ Len(written) >= Len(FirstText) + Len(kept)
           /\ SubSeq(written, 1, Len(FirstText)) = FirstText
           /\ SubSeq(written, Len(written) - Len(kept) + 1, Len(written)) = kept

====
